---- MODULE Spec2Model ----
(***************************************************************************)
(* A model of CanteraZeroD::ReactorNet (Cantera/src/zeroD/ReactorNet.cpp): *)
(* the registration of reactors, initialize, advance and step, the         *)
(* evaluator and the queries; and of Cantera::Delegator                    *)
(* (include/cantera/base/Delegator.h).                                     *)
(*                                                                         *)
(* Times, tolerances and step sizes are integers: the code only copies,    *)
(* compares and subtracts them.  C++ containers are 0-based, the sequences *)
(* below are 1-based: m_size[n] of the code is m_size[n + 1] here.         *)
(***************************************************************************)
EXTENDS Integers, Sequences, FiniteSets, TLC

(* ---------------------------- bounds ----------------------------------- *)
MaxReactors == 2      \* handles registered with the network
MaxNeq      == 2      \* largest local size of a reactor
MaxSens     == 1      \* largest number of sensitivity parameters of a reactor
MaxTime     == 1      \* largest time passed to advance / step
MaxTable    == 4      \* entries of m_size and m_nparams, which only grow
MaxChain    == 2      \* delegates set one upon another on one method
MaxVal      == 2      \* largest value a method or a delegate returns

(* ------------------- type tags of ReactorBase::type() ------------------ *)
ReservoirType   == 1
ReactorType     == 2
FlowReactorType == 3

Times == {0, MaxTime}

(* the scalar absolute tolerance set by the constructor *)
m_atols == "1.0e-15"

VARIABLES
    reactor,      \* the Reactor objects of the caller: id -> [type, neq, nsens, ystart]
    m_r,          \* registered handles, in registration order
    m_nr,         \* number of registered handles
    m_reactors,   \* the reactor table built by initialize
    m_nreactors,  \* number of entries of m_reactors that are in use
    m_size,       \* per-reactor local sizes
    m_nparams,    \* per-reactor sensitivity-parameter counts
    m_ntotpar,    \* total sensitivity-parameter count
    m_nv,         \* total equation count
    m_atol,       \* absolute-tolerance vector
    m_time,       \* current time
    m_init,       \* initialized flag
    m_maxstep,    \* maximum step size, negative when none is set
    integ,        \* the Integrator owned by the network
    call,         \* the last call made on the network and how it ended
    trace,        \* the calls the last call made on reactors and integrator
    everInit      \* some initialize has completed without error

(* a Delegator (Delegator.h), an object of its own *)
VARIABLES
    m_funcs_v_d,     \* name -> the target function of a void(double) method
    m_funcs_sz_csr,  \* name -> the target function of a size_t(string) method
    m_base_sz_csr,   \* name -> the original size_t(string) method
    dcall            \* the last call made on the Delegator and how it ended

dvars == <<m_funcs_v_d, m_funcs_sz_csr, m_base_sz_csr, dcall>>

vars == <<reactor, m_r, m_nr, m_reactors, m_nreactors, m_size, m_nparams,
          m_ntotpar, m_nv, m_atol, m_time, m_init, m_maxstep, integ, call,
          trace, everInit, dvars>>

netvars == <<reactor, m_r, m_nr, m_reactors, m_nreactors, m_size, m_nparams,
             m_ntotpar, m_nv, m_atol, m_time, m_init, m_maxstep, integ, call,
             trace, everInit>>

Ev(name, h, v) == [ev |-> name, h |-> h, v |-> v]

RECURSIVE SumSeq(_)
SumSeq(s) == IF s = <<>> THEN 0 ELSE Head(s) + SumSeq(Tail(s))

Prefix(s, k) == SubSeq(s, 1, k)

(* ------------------------- the Reactor objects ------------------------- *)
(* The reactors a caller builds: a reservoir (a placeholder, never asked   *)
(* for its size), a reactor, a flow reactor, each with one equation and no *)
(* sensitivity parameter until the caller gives it more.  ystart is the    *)
(* offset of the slice the reactor last took its state from.               *)
NewReactor(ty, nq, ns) ==
    [type |-> ty, neq |-> nq, nsens |-> ns, ystart |-> -1]

Kinds ==
    { NewReactor(ReservoirType, 0, 0),
      NewReactor(ReactorType, 1, 0),
      NewReactor(FlowReactorType, 1, 0) }

(* the step sizes a caller configures: larger than any advance(T) - 0 *)
StepSizes == {MaxTime + 1}

(* ------------------------- the Delegator ------------------------------- *)
(* the names a caller uses for methods: the derived class installs "f" as  *)
(* a void(double) method and "g" as a size_t(string) method                *)
Names == {"f", "g"}

(* no entry for a name in a map *)
Absent == [kind |-> "absent"]

count_any(m, name) == TRUE

count(m, name) == m[name] # Absent

(* a Delegator as constructed: its maps are empty *)
NoDelegates ==
    /\ m_funcs_v_d = [n \in Names |-> Absent]
    /\ m_funcs_sz_csr = [n \in Names |-> Absent]
    /\ m_base_sz_csr = [n \in Names |-> Absent]
    /\ dcall = [op |-> "new"]

(* ------------------------------ Init ----------------------------------- *)
(* ReactorNet::ReactorNet() *)
Init ==
    /\ reactor = <<>>
    /\ m_r = <<>>
    /\ m_nr = 0
    /\ m_reactors = <<>>
    /\ m_nreactors = 0
    /\ m_size = <<>>
    /\ m_nparams = <<>>
    /\ m_ntotpar = 0
    /\ m_nv = 0
    /\ m_atol = <<>>
    /\ m_time = 0
    /\ m_init = FALSE
    /\ m_maxstep = -1
    /\ integ = [ready |-> FALSE, n |-> 0, maxstep |-> -1]
    /\ call = [op |-> "new", ok |-> TRUE, arg |-> 0, ret |-> 0]
    /\ trace = <<>>
    /\ everInit = FALSE
    /\ NoDelegates

Call(op, ok, arg, ret) ==
    [op |-> op, ok |-> ok, arg |-> arg, ret |-> ret]

(* --------------------------- initialize -------------------------------- *)
(* line 36: the handles that count as reactors *)
Qualifies_all(h) == TRUE

Qualifies(h) == reactor[h].type >= ReactorType

(* line 53: the flow-reactor test *)
FlowAlone_any(h) == reactor[h].type = FlowReactorType /\ m_nr >= 1

FlowAlone(h) == reactor[h].type = FlowReactorType /\ m_nr > 1

(* lines 29-31: what initialize resets before its loop *)
ResetTables ==
    [reactors |-> <<>>, nreactors |-> 0, nv |-> 0,
     size |-> m_size, nparams |-> m_nparams, ntotpar |-> m_ntotpar,
     tr |-> <<>>, thrown |-> FALSE]

(* lines 37-45: one qualifying reactor is initialized and recorded *)
Record(st, h, t0) ==
    [st EXCEPT !.tr        = Append(@, Ev("Reactor::initialize", h, t0)),
               !.reactors  = Append(@, h),
               !.size      = Append(@, reactor[h].neq),
               !.nparams   = Append(@, reactor[h].nsens),
               !.ntotpar   = @ + reactor[h].nsens,
               !.nv        = @ + reactor[h].neq,
               !.nreactors = @ + 1]

(* lines 35-58: the loop over the registered handles, n = 0 .. m_nr - 1 *)
RECURSIVE InitLoop(_, _, _)
InitLoop(n, st, t0) ==
    IF n >= m_nr THEN st
    ELSE LET h == m_r[n + 1] IN
         IF Qualifies(h)
         THEN LET st1 == Record(st, h, t0) IN
              IF FlowAlone(h) THEN [st1 EXCEPT !.thrown = TRUE]
              ELSE InitLoop(n + 1, st1, t0)
         ELSE InitLoop(n + 1, st, t0)

(* lines 60-64: the tolerance vector is rebuilt and the integrator is      *)
(* configured; neq() is the equation count the loop has just summed        *)
Configure(st, maxstep) ==
    [st EXCEPT !.atol  = [i \in 1..st.nv |-> m_atols],
               !.integ = [@ EXCEPT !.n = st.nv, !.maxstep = maxstep],
               !.tr    = @ \o <<Ev("setTolerances", 0, st.nv),
                                Ev("setMaxStepSize", 0, maxstep)>>]

(* lines 71-72: the integrator's own initialize, which may fail, and then  *)
(* the flag                                                                *)
Finish_early(st, t0, integOk) ==
    LET st1 == [st EXCEPT !.tr = Append(@, Ev("Integrator::initialize", 0, t0)),
                          !.init = TRUE]
    IN  IF integOk
        THEN [st1 EXCEPT !.integ = [@ EXCEPT !.ready = TRUE], !.outcome = "ok"]
        ELSE [st1 EXCEPT !.outcome = "IntegratorError"]

Finish(st, t0, integOk) ==
    LET st1 == [st EXCEPT !.tr = Append(@, Ev("Integrator::initialize", 0, t0))]
    IN  IF integOk
        THEN [st1 EXCEPT !.integ = [@ EXCEPT !.ready = TRUE],
                         !.init = TRUE, !.outcome = "ok"]
        ELSE [st1 EXCEPT !.outcome = "IntegratorError"]

(* ReactorNet::initialize(t0), with m_maxstep = maxstep when it is called  *)
initialize(t0, maxstep, integOk) ==
    LET st0 == InitLoop(0, ResetTables, t0)
        st  == [reactors |-> st0.reactors, nreactors |-> st0.nreactors,
                nv |-> st0.nv, size |-> st0.size, nparams |-> st0.nparams,
                ntotpar |-> st0.ntotpar,
                tr |-> <<Ev("ReactorNet::initialize", 0, t0)>> \o st0.tr,
                atol |-> m_atol, integ |-> integ, init |-> m_init,
                outcome |-> "SetupError"]
    IN  IF st0.thrown THEN st
        ELSE Finish(Configure(st, maxstep), t0, integOk)

(* the network as it is, for a call that does not run initialize *)
Current ==
    [reactors |-> m_reactors, nreactors |-> m_nreactors, nv |-> m_nv,
     size |-> m_size, nparams |-> m_nparams, ntotpar |-> m_ntotpar,
     tr |-> <<>>, atol |-> m_atol, integ |-> integ, init |-> m_init,
     outcome |-> "ok"]

(* the fields initialize writes *)
Store(st) ==
    /\ m_reactors' = st.reactors
    /\ m_nreactors' = st.nreactors
    /\ m_nv' = st.nv
    /\ m_size' = st.size
    /\ m_nparams' = st.nparams
    /\ m_ntotpar' = st.ntotpar
    /\ m_atol' = st.atol
    /\ m_init' = st.init

(* --------------------------- updateState ------------------------------- *)
(* lines 135-142: the calls updateState makes, reactor n being handed      *)
(* y + start, start the running sum of m_size[0 .. n-1]                    *)
RECURSIVE updateStateLoop(_, _, _)
updateStateLoop(n, start, st) ==
    IF n >= st.nreactors THEN <<>>
    ELSE <<Ev("Reactor::updateState", st.reactors[n + 1], start)>>
         \o updateStateLoop(n + 1, start + st.size[n + 1], st)

updateState(st) == updateStateLoop(0, 0, st)

(* Reactor::updateState(y + start): the reactor takes its state from the   *)
(* slice that begins at start; it remembers which slice that was           *)
RECURSIVE Scatter(_, _)
Scatter(heap, calls) ==
    IF calls = <<>> THEN heap
    ELSE Scatter([heap EXCEPT ![Head(calls).h].ystart = Head(calls).v],
                 Tail(calls))

(* error() is among the calls made *)
HasError(tr) == \E k \in DOMAIN tr : tr[k].ev = "error"

(* error() has ended the execution within the last call, which never      *)
(* returned to its caller: its record has ret < 0                          *)
Aborted == call.ret < 0

(* ----------------------------- actions --------------------------------- *)
(* ReactorNet::addReactor: the caller registers a reactor of its own *)
AddReactor(r) ==
    /\ ~Aborted
    /\ UNCHANGED dvars
    /\ m_nr < MaxReactors
    /\ reactor' = Append(reactor, r)
    /\ m_r' = Append(m_r, Len(reactor) + 1)
    /\ m_nr' = m_nr + 1
    /\ call' = Call("addReactor", TRUE, 0, 0)
    /\ trace' = <<>>
    /\ UNCHANGED <<m_reactors, m_nreactors, m_size, m_nparams, m_ntotpar,
                   m_nv, m_atol, m_time, m_init, m_maxstep, integ,
                   everInit>>

(* the caller gives a registered reactor more contents: a larger neq()     *)
(* and more sensitivity parameters                                         *)
ReactorResize(h, nq, ns) ==
    /\ ~Aborted
    /\ UNCHANGED dvars
    /\ h \in 1..Len(reactor)
    /\ Qualifies(h)
    /\ reactor[h].neq < nq
    /\ reactor' = [reactor EXCEPT ![h].neq = nq, ![h].nsens = ns]
    /\ call' = Call("resize", TRUE, 0, 0)
    /\ trace' = <<>>
    /\ UNCHANGED <<m_r, m_nr, m_reactors, m_nreactors, m_size, m_nparams,
                   m_ntotpar, m_nv, m_atol, m_time, m_init, m_maxstep, integ,
                   everInit>>

(* ReactorNet::setMaxStep *)
SetMaxStep(v) ==
    /\ ~Aborted
    /\ UNCHANGED dvars
    /\ m_maxstep # v
    /\ m_maxstep' = v
    /\ call' = Call("setMaxStep", TRUE, v, 0)
    /\ trace' = <<>>
    /\ UNCHANGED <<reactor, m_r, m_nr, m_reactors, m_nreactors, m_size,
                   m_nparams, m_ntotpar, m_nv, m_atol, m_time, m_init, integ,
                   everInit>>

(* ReactorNet::initialize(t0), called by the caller *)
Initialize(t0, integOk) ==
    /\ ~Aborted
    /\ UNCHANGED dvars
    /\ Len(m_size) + m_nr <= MaxTable
    /\ LET st == initialize(t0, m_maxstep, integOk) IN
       /\ Store(st)
       /\ integ' = st.integ
       /\ trace' = st.tr
       /\ call' = Call("initialize", st.outcome = "ok", t0, 0)
       /\ everInit' = (everInit \/ st.outcome = "ok")
    /\ UNCHANGED <<reactor, m_r, m_nr, m_time, m_maxstep>>

(* lines 76-78 and 87-89: the max step size advance and step derive *)
LazyMaxStep_unset(time) == m_maxstep

LazyMaxStep_swapped(time) ==
    IF ~m_init /\ m_maxstep < 0 THEN m_time - time ELSE m_maxstep

LazyMaxStep(time) ==
    IF ~m_init /\ m_maxstep < 0 THEN time - m_time ELSE m_maxstep

(* lines 76-80 and 87-91: the lazy initialize of advance and step *)
Lazy_always(time, integInitOk) ==
    initialize(0, LazyMaxStep(time), integInitOk)

Lazy(time, integInitOk) ==
    IF ~m_init THEN initialize(0, LazyMaxStep(time), integInitOk) ELSE Current

(* line 82: the current time advance leaves *)
TimeAfterAdvance_kept(time) == m_time

TimeAfterAdvance(time) == time

(* line 92: the current time step leaves, reached being the value          *)
(* Integrator::step(time) returned                                         *)
TimeAfterStep_asked(time, reached) == time

TimeAfterStep(time, reached) == reached

(* ------------------------------- eval --------------------------------- *)
EvP(name, h, v, p) == [ev |-> name, h |-> h, v |-> v, p |-> p]

(* what happens to the evaluator during one integrate or step: the          *)
(* integrator does not call it (NoEval: the time asked for lies within the *)
(* step it has already taken), or it calls it and no reactor fails         *)
(* (NoFail), or a reactor fails in its updateState or its evalEqs, at the  *)
(* at-th reactor of the table                                              *)
NoEval == [in |-> "skip", at |-> 0]

NoFail == [in |-> "none", at |-> 0]

FailPoints(n) ==
    {NoEval, NoFail} \cup [in : {"updateState", "evalEqs"}, at : 1..n]

(* lines 122-127: the calls of evalEqs, reactor n being handed y + start,  *)
(* ydot + start and p + pstart; the loop ends at a call that throws        *)
RECURSIVE evalLoop(_, _, _, _, _)
evalLoop(n, start, pstart, st, fail) ==
    IF n >= st.nreactors THEN <<>>
    ELSE <<EvP("Reactor::evalEqs", st.reactors[n + 1], start, pstart)>>
         \o IF fail = [in |-> "evalEqs", at |-> n + 1] THEN <<>>
            ELSE evalLoop(n + 1, start + st.size[n + 1],
                          pstart + st.nparams[n + 1], st, fail)

(* lines 129-132: what eval does with a failure of a reactor; error()      *)
(* ends the execution                                                      *)
Caught_rethrown == <<Ev("rethrow", 0, 0)>>

Caught == <<Ev("showErrors", 0, 0), Ev("error", 0, 0)>>

(* lines 113-133: ReactorNet::eval(t, y, ydot, p).  tr: the calls it       *)
(* makes; scatter: the updateState calls that returned; ok: it returned    *)
eval(st, fail) ==
    LET us == updateState(st) IN
    IF fail.in = "updateState"
    THEN [tr |-> <<Ev("eval", 0, 0)>> \o Prefix(us, fail.at) \o Caught,
          scatter |-> Prefix(us, fail.at - 1), ok |-> FALSE]
    ELSE [tr |-> <<Ev("eval", 0, 0)>> \o us \o evalLoop(0, 0, 0, st, fail)
                 \o IF fail.in = "evalEqs" THEN Caught
                    ELSE <<Ev("eval returned", 0, 0)>>,
          scatter |-> us, ok |-> fail.in = "none"]

(* Integrator::integrate(time) and Integrator::step(time): the integrator  *)
(* calls the evaluator, and then returns, or fails on its own account.     *)
(* A failure that eval lets through surfaces like the integrator's own.    *)
Integrate(name, returned, time, st, integOk, fail, reached) ==
    IF fail = NoEval
    THEN [tr |-> IF integOk
                 THEN <<Ev(name, 0, time), Ev(returned, 0, reached)>>
                 ELSE <<Ev(name, 0, time), Ev("IntegrationFailure", 0, 0)>>,
          scatter |-> <<>>, ok |-> integOk]
    ELSE LET e == eval(st, fail) IN
         [tr |-> <<Ev(name, 0, time)>> \o e.tr
                 \o IF ~e.ok THEN <<>>
                    ELSE IF ~integOk THEN <<Ev("IntegrationFailure", 0, 0)>>
                    ELSE <<Ev(returned, 0, reached)>>,
          scatter |-> e.scatter, ok |-> e.ok /\ integOk]

(* lines 81-83 and 92-93: the statements after the call of the integrator  *)
(* run only if that call returned; nothing catches what it throws          *)
Returned_always(run) == TRUE

Returned(run) == run.ok

(* ReactorNet::advance(time) *)
Advance(time, integInitOk, integOk, fail) ==
    /\ ~Aborted
    /\ UNCHANGED dvars
    /\ m_init \/ Len(m_size) + m_nr <= MaxTable
    /\ m_init => integInitOk
    /\ ~integInitOk => integOk
    /\ fail \notin {NoEval, NoFail} => integInitOk /\ integOk /\ fail.at <= m_nr
    /\ LET st == Lazy(time, integInitOk) IN
       /\ Store(st)
       /\ m_maxstep' = LazyMaxStep(time)
       /\ everInit' = (everInit \/ (~m_init /\ st.outcome = "ok"))
       /\ integ' = st.integ
       /\ IF st.outcome # "ok"
          THEN /\ fail = NoEval /\ integOk
               /\ trace' = st.tr
               /\ call' = Call("advance", FALSE, time, 0)
               /\ UNCHANGED <<reactor, m_time>>
          ELSE LET run == Integrate("integrate", "integrate returned", time, st,
                                    integOk, fail, time)
               IN
               /\ fail.at <= st.nreactors
               /\ IF ~Returned(run)
                  THEN /\ trace' = st.tr \o run.tr
                       /\ reactor' = Scatter(reactor, run.scatter)
                       /\ call' = Call("advance", FALSE, time,
                                       IF HasError(run.tr) THEN -1 ELSE 0)
                       /\ UNCHANGED m_time
                  ELSE /\ m_time' = TimeAfterAdvance(time)
                       /\ reactor' = Scatter(reactor,
                                             run.scatter \o updateState(st))
                       /\ trace' = st.tr \o run.tr \o updateState(st)
                       /\ call' = Call("advance", TRUE, time, 0)
    /\ UNCHANGED <<m_r, m_nr>>

(* ReactorNet::step(time); reached is the time Integrator::step reports *)
Step(time, integInitOk, integOk, reached, fail) ==
    /\ ~Aborted
    /\ UNCHANGED dvars
    /\ m_init \/ Len(m_size) + m_nr <= MaxTable
    /\ m_init => integInitOk
    /\ ~integInitOk => integOk
    /\ ~integOk => reached = time
    /\ fail \notin {NoEval, NoFail} =>
          integInitOk /\ integOk /\ reached = time /\ fail.at <= m_nr
    /\ LET st == Lazy(time, integInitOk) IN
       /\ Store(st)
       /\ m_maxstep' = LazyMaxStep(time)
       /\ everInit' = (everInit \/ (~m_init /\ st.outcome = "ok"))
       /\ integ' = st.integ
       /\ IF st.outcome # "ok"
          THEN /\ fail = NoEval /\ integOk /\ reached = time
               /\ trace' = st.tr
               /\ call' = Call("step", FALSE, time, 0)
               /\ UNCHANGED <<reactor, m_time>>
          ELSE LET run == Integrate("step", "step returned", time, st,
                                    integOk, fail, reached)
               IN
               /\ fail.at <= st.nreactors
               /\ IF ~Returned(run)
                  THEN /\ trace' = st.tr \o run.tr
                       /\ reactor' = Scatter(reactor, run.scatter)
                       /\ call' = Call("step", FALSE, time,
                                       IF HasError(run.tr) THEN -1 ELSE 0)
                       /\ UNCHANGED m_time
                  ELSE /\ m_time' = TimeAfterStep(time, reached)
                       /\ reactor' = Scatter(reactor,
                                             run.scatter \o updateState(st))
                       /\ trace' = st.tr \o run.tr \o updateState(st)
                       /\ call' = Call("step", TRUE, time, m_time')
    /\ UNCHANGED <<m_r, m_nr>>

(* ReactorNet::eval(t, y, ydot, p), called on its own (lines 113-133) *)
Eval(fail) ==
    /\ ~Aborted
    /\ UNCHANGED dvars
    /\ fail # NoEval
    /\ fail.at <= m_nreactors
    /\ LET e == eval(Current, fail) IN
       /\ trace' = e.tr
       /\ reactor' = Scatter(reactor, e.scatter)
       /\ call' = Call("eval", e.ok, 0, IF HasError(e.tr) THEN -1 ELSE 0)
    /\ UNCHANGED <<m_r, m_nr, m_reactors, m_nreactors, m_size, m_nparams,
                   m_ntotpar, m_nv, m_atol, m_time, m_init, m_maxstep,
                   integ, everInit>>

(* ------------------------ getInitialConditions ------------------------- *)
(* a cell of a buffer holds <<h, j>>, the j-th value of reactor h's own    *)
(* state, or Unwritten                                                     *)
Unwritten == <<0, 0>>

(* Reactor::getInitialConditions(t0, leny, y): the reactor writes the neq  *)
(* values of its state                                                     *)
Own(h) == [j \in 1..reactor[h].neq |-> <<h, j>>]

(* lines 147-151: the calls getInitialConditions makes, reactor n being    *)
(* handed y + start                                                        *)
RECURSIVE getInitialConditionsLoop(_, _, _)
getInitialConditionsLoop(n, start, st) ==
    IF n >= st.nreactors THEN <<>>
    ELSE <<Ev("Reactor::getInitialConditions", st.reactors[n + 1], start)>>
         \o getInitialConditionsLoop(n + 1, start + st.size[n + 1], st)

(* lines 144-152: ReactorNet::getInitialConditions(t0, leny, y) *)
getInitialConditions(st) == getInitialConditionsLoop(0, 0, st)

(* the buffer y after the reactors have written into it, one call after    *)
(* another                                                                 *)
RECURSIVE Gather(_, _)
Gather(y, calls) ==
    IF calls = <<>> THEN y
    ELSE LET h == Head(calls).h
             start == Head(calls).v
         IN  Gather([k \in DOMAIN y |->
                        IF k - start \in 1..reactor[h].neq
                        THEN Own(h)[k - start] ELSE y[k]],
                    Tail(calls))

(* every write of the calls lies within a buffer of leny cells *)
Fits(calls, leny) ==
    \A k \in DOMAIN calls : calls[k].v + reactor[calls[k].h].neq <= leny

GetInitialConditions(leny) ==
    /\ ~Aborted
    /\ UNCHANGED dvars
    /\ leny \in {m_nv, m_nv + 1}
    /\ LET calls == getInitialConditions(Current) IN
       /\ Fits(calls, leny)
       /\ trace' = calls
       /\ call' = Call("getInitialConditions", TRUE,
                       [leny |-> leny,
                        y |-> Gather([k \in 1..leny |-> Unwritten], calls)],
                       0)
    /\ UNCHANGED <<reactor, m_r, m_nr, m_reactors, m_nreactors, m_size,
                   m_nparams, m_ntotpar, m_nv, m_atol, m_time, m_init,
                   m_maxstep, integ, everInit>>

(* ReactorNet::updateState(y), y the buffer getInitialConditions has just  *)
(* filled                                                                  *)
UpdateState ==
    /\ ~Aborted
    /\ UNCHANGED dvars
    /\ call.op = "getInitialConditions"
    /\ trace' = updateState(Current)
    /\ reactor' = Scatter(reactor, updateState(Current))
    /\ call' = Call("updateState", TRUE, call.arg, 0)
    /\ UNCHANGED <<m_r, m_nr, m_reactors, m_nreactors, m_size, m_nparams,
                   m_ntotpar, m_nv, m_atol, m_time, m_init, m_maxstep,
                   integ, everInit>>

(* ------------------------ globalComponentIndex ------------------------- *)
(* Reactor::componentIndex(name): the components of a reactor are named    *)
(* 0 .. neq-1 after their local index; any other name fails                *)
Known(h, name) == name < reactor[h].neq

componentIndex(h, name) == name

(* line 157: the sum of m_size[0 .. reactor-1] *)
StartOf(reactor_) == SumSeq(Prefix(m_size, reactor_))

(* lines 154-159: ReactorNet::globalComponentIndex(species, reactor) *)
GlobalComponentIndex(species, reactor_) ==
    /\ ~Aborted
    /\ UNCHANGED dvars
    /\ reactor_ < m_nreactors
    /\ LET h == m_reactors[reactor_ + 1] IN
       call' = IF Known(h, species)
               THEN Call("globalComponentIndex", TRUE,
                         [species |-> species, reactor |-> reactor_],
                         StartOf(reactor_) + componentIndex(h, species))
               ELSE Call("globalComponentIndex", FALSE,
                         [species |-> species, reactor |-> reactor_], 0)
    /\ trace' = <<>>
    /\ UNCHANGED <<reactor, m_r, m_nr, m_reactors, m_nreactors, m_size,
                   m_nparams, m_ntotpar, m_nv, m_atol, m_time, m_init,
                   m_maxstep, integ, everInit>>

Next ==
    \/ \E r \in Kinds : AddReactor(r)
    \/ \E h \in {1} : ReactorResize(h, MaxNeq, MaxSens)
    \/ \E v \in StepSizes : SetMaxStep(v)
    \/ \E t0 \in {0}, ok \in BOOLEAN : Initialize(t0, ok)
    \/ \E time \in Times, iok \in BOOLEAN, ok \in BOOLEAN :
          Advance(time, iok, ok, NoEval)
    \/ \E time \in Times, iok \in BOOLEAN, ok \in BOOLEAN, reached \in Times :
          Step(time, iok, ok, reached, NoEval)

Spec == Init /\ [][Next]_vars

(* the evaluator and the queries of a network: no step size is configured, *)
(* one time is asked for, and the integrator calls the evaluator           *)
EvalNext ==
    \/ \E r \in Kinds : AddReactor(r)
    \/ \E h \in {1} : ReactorResize(h, MaxNeq, MaxSens)
    \/ \E t0 \in {0}, ok \in BOOLEAN : Initialize(t0, ok)
    \/ \E fail \in FailPoints(MaxReactors) :
          Advance(MaxTime, TRUE, TRUE, fail)
    \/ \E fail \in FailPoints(MaxReactors) :
          Step(MaxTime, TRUE, TRUE, MaxTime, fail)
    \/ \E fail \in FailPoints(MaxReactors) : Eval(fail)
    \/ \E leny \in 0..(MaxReactors * MaxNeq + 1) : GetInitialConditions(leny)
    \/ UpdateState
    \/ \E species \in 0..MaxNeq, r \in 0..(MaxReactors - 1) :
          GlobalComponentIndex(species, r)

EvalSpec == Init /\ [][EvalNext]_vars

(* ======================================================================= *)
(*                              Delegator                                  *)
(* ======================================================================= *)
(* A std::function is modelled by what it is: the method of the derived    *)
(* class, a delegate of the caller, or one of the closures makeDelegate    *)
(* builds, which hold copies of the functions they capture.                *)
Method_v(name) == [kind |-> "method", id |-> name]

Method_sz(name, val) == [kind |-> "method", id |-> name, val |-> val]

(* the delegates a caller passes: void(double) ones; and                   *)
(* int(size_t&, const string&) ones, which set the value val and return a  *)
(* non-zero done, or set nothing and return 0                              *)
Delegates_v == [kind : {"delegate"}, id : {"d1", "d2"}]

Delegates_sz ==
    [kind : {"delegate"}, id : {"d1"}, done : {0, 1}, val : 1..MaxVal]

Whens == {"before", "after", "replace", "instead"}

Args == {0, 1}

(* lines 244-269: makeDelegate for a function with no return value *)
makeDelegate_v_swapped(func, when, base) ==
    CASE when = "before"  -> [kind |-> "after", func |-> func, base |-> base]
      [] when = "after"   -> [kind |-> "before", func |-> func, base |-> base]
      [] when = "replace" -> [kind |-> "replace", func |-> func]
      [] OTHER            -> [kind |-> "CanteraError"]

makeDelegate_v(func, when, base) ==
    CASE when = "before"  -> [kind |-> "before", func |-> func, base |-> base]
      [] when = "after"   -> [kind |-> "after", func |-> func, base |-> base]
      [] when = "replace" -> [kind |-> "replace", func |-> func]
      [] OTHER            -> [kind |-> "CanteraError"]

(* lines 272-315: makeDelegate for a function with a return value *)
makeDelegate_r_swapped(func, when, base) ==
    CASE when = "before"  -> [kind |-> "after", func |-> func, base |-> base]
      [] when = "after"   -> [kind |-> "before", func |-> func, base |-> base]
      [] when = "replace" -> [kind |-> "replace", func |-> func]
      [] OTHER            -> [kind |-> "CanteraError"]

makeDelegate_r(func, when, base) ==
    CASE when = "before"  -> [kind |-> "before", func |-> func, base |-> base]
      [] when = "after"   -> [kind |-> "after", func |-> func, base |-> base]
      [] when = "replace" -> [kind |-> "replace", func |-> func]
      [] OTHER            -> [kind |-> "CanteraError"]

(* how many closures are nested in a function *)
RECURSIVE Depth(_)
Depth(fn) ==
    CASE fn.kind \in {"before", "after"} -> 1 + Depth(fn.base)
      [] fn.kind = "replace"             -> 1
      [] OTHER                           -> 0

Called(fn, arg) == [f |-> fn.id, arg |-> arg]

(* lines 250-263: the bodies of the closures without return value: the     *)
(* calls of methods and delegates that calling fn(arg) makes, in order     *)
RECURSIVE Run_v(_, _)
Run_v(fn, arg) ==
    CASE fn.kind \in {"method", "delegate"} -> <<Called(fn, arg)>>
      [] fn.kind = "before"  -> Run_v(fn.func, arg) \o Run_v(fn.base, arg)
      [] fn.kind = "after"   -> Run_v(fn.base, arg) \o Run_v(fn.func, arg)
      [] fn.kind = "replace" -> Run_v(fn.func, arg)
      [] OTHER               -> <<>>

(* lines 278-309: the bodies of the closures with a return value: the      *)
(* calls that calling fn(arg) makes and the value it returns; junk is what *)
(* a ret that nothing has set happens to hold                              *)
RECURSIVE Run_r(_, _, _)
Run_r(fn, arg, junk) ==
    CASE fn.kind = "method" ->
            [calls |-> <<Called(fn, arg)>>, ret |-> fn.val]
      [] fn.kind = "before" ->
            IF fn.func.done # 0
            THEN [calls |-> <<Called(fn.func, arg)>>, ret |-> fn.func.val]
            ELSE LET b == Run_r(fn.base, arg, junk) IN
                 [calls |-> <<Called(fn.func, arg)>> \o b.calls,
                  ret |-> b.ret]
      [] fn.kind = "after" ->
            LET b == Run_r(fn.base, arg, junk) IN
            [calls |-> b.calls \o <<Called(fn.func, arg)>>,
             ret |-> IF fn.func.done # 0 THEN b.ret + fn.func.val
                     ELSE b.ret]
      [] fn.kind = "replace" ->
            [calls |-> <<Called(fn.func, arg)>>,
             ret |-> IF fn.func.done # 0 THEN fn.func.val ELSE junk]
      [] OTHER -> [calls |-> <<>>, ret |-> junk]

DCall(op, sig, name, func, when, prev, err) ==
    [op |-> op, sig |-> sig, name |-> name, func |-> func, when |-> when,
     prev |-> prev, err |-> err]

(* lines 177-183: install(name, target, func), void(double) *)
Install_v_d(name) ==
    /\ m_funcs_v_d' = [m_funcs_v_d EXCEPT ![name] = Method_v(name)]
    /\ dcall' = DCall("install", "v_d", name, Method_v(name), "", Absent,
                      "none")
    /\ UNCHANGED <<m_funcs_sz_csr, m_base_sz_csr, netvars>>

(* lines 232-241: install(name, target, base), size_t(string) *)
Install_sz_csr(name, val) ==
    /\ m_funcs_sz_csr' = [m_funcs_sz_csr EXCEPT ![name] = Method_sz(name, val)]
    /\ m_base_sz_csr' = [m_base_sz_csr EXCEPT ![name] = Method_sz(name, val)]
    /\ dcall' = DCall("install", "sz_csr", name, Method_sz(name, val), "",
                      Absent, "none")
    /\ UNCHANGED <<m_funcs_v_d, netvars>>

(* lines 68-76: setDelegate(name, func, when), void(double) *)
SetDelegate_v_d(name, func, when) ==
    /\ Depth(m_funcs_v_d[name]) < MaxChain \/ when \notin {"before", "after"}
    /\ IF ~count(m_funcs_v_d, name)
       THEN /\ dcall' = DCall("setDelegate", "v_d", name, func, when, Absent,
                              "NotImplementedError")
            /\ UNCHANGED m_funcs_v_d
       ELSE LET made == makeDelegate_v(func, when, m_funcs_v_d[name]) IN
            IF made.kind = "CanteraError"
            THEN /\ dcall' = DCall("setDelegate", "v_d", name, func, when,
                                   m_funcs_v_d[name], "CanteraError")
                 /\ UNCHANGED m_funcs_v_d
            ELSE /\ m_funcs_v_d' = [m_funcs_v_d EXCEPT ![name] = made]
                 /\ dcall' = DCall("setDelegate", "v_d", name, func, when,
                                   m_funcs_v_d[name], "none")
    /\ UNCHANGED <<m_funcs_sz_csr, m_base_sz_csr, netvars>>

(* lines 146-158: setDelegate(name, func, when), size_t(string) *)
SetDelegate_sz_csr(name, func, when) ==
    /\ IF ~count(m_funcs_sz_csr, name)
       THEN /\ dcall' = DCall("setDelegate", "sz_csr", name, func, when,
                              Absent, "NotImplementedError")
            /\ UNCHANGED m_funcs_sz_csr
       ELSE LET made == makeDelegate_r(func, when, m_base_sz_csr[name]) IN
            IF made.kind = "CanteraError"
            THEN /\ dcall' = DCall("setDelegate", "sz_csr", name, func, when,
                                   m_funcs_sz_csr[name], "CanteraError")
                 /\ UNCHANGED m_funcs_sz_csr
            ELSE /\ m_funcs_sz_csr' = [m_funcs_sz_csr EXCEPT ![name] = made]
                 /\ dcall' = DCall("setDelegate", "sz_csr", name, func, when,
                                   m_funcs_sz_csr[name], "none")
    /\ UNCHANGED <<m_funcs_v_d, m_base_sz_csr, netvars>>

(* the derived class calls its void(double) method name through the target *)
Invoke_v_d(name, arg) ==
    /\ count(m_funcs_v_d, name)
    /\ dcall' = [op |-> "invoke", sig |-> "v_d", name |-> name, arg |-> arg,
                 calls |-> Run_v(m_funcs_v_d[name], arg), ret |-> 0]
    /\ UNCHANGED <<m_funcs_v_d, m_funcs_sz_csr, m_base_sz_csr, netvars>>

(* the derived class calls its size_t(string) method name *)
Invoke_sz_csr(name, arg, junk) ==
    /\ count(m_funcs_sz_csr, name)
    /\ LET run == Run_r(m_funcs_sz_csr[name], arg, junk) IN
       dcall' = [op |-> "invoke", sig |-> "sz_csr", name |-> name,
                 arg |-> arg, calls |-> run.calls, ret |-> run.ret]
    /\ UNCHANGED <<m_funcs_v_d, m_funcs_sz_csr, m_base_sz_csr, netvars>>

DelegatorNext ==
    \/ \E name \in {"f"} : Install_v_d(name)
    \/ \E name \in {"g"}, val \in {MaxVal} : Install_sz_csr(name, val)
    \/ \E name \in Names, func \in Delegates_v, when \in Whens :
          SetDelegate_v_d(name, func, when)
    \/ \E name \in Names, func \in Delegates_sz, when \in Whens :
          SetDelegate_sz_csr(name, func, when)
    \/ \E name \in Names, arg \in Args : Invoke_v_d(name, arg)
    \/ \E name \in Names, arg \in Args, junk \in {0, MaxVal} :
          Invoke_sz_csr(name, arg, junk)

DelegatorSpec == Init /\ [][DelegatorNext]_vars

(* ======================================================================= *)
(*                         properties of initialize                        *)
(* ======================================================================= *)
HasEvent(tr, name) == \E k \in DOMAIN tr : tr[k].ev = name

EventsOf(tr, name) == SelectSeq(tr, LAMBDA e : e.ev = name)

(* the last call ran ReactorNet::initialize, explicitly or lazily *)
RanInitialize == trace # <<>> /\ trace[1].ev = "ReactorNet::initialize"

(* ... and that initialize threw before it configured the integrator *)
SetupFailed == RanInitialize /\ ~HasEvent(trace, "setTolerances")

(* ... or it ran to its end: the explicit call returned; the lazy one ran  *)
(* only because the flag was false, and has set it                         *)
InitializeSucceeded ==
    /\ RanInitialize
    /\ \/ call.op = "initialize" /\ call.ok
       \/ call.op \in {"advance", "step"} /\ m_init

(* the registered handles that are genuine reactors, in registration order *)
Genuine(h) == reactor[h].type # ReservoirType

GenuineHandles == SelectSeq(m_r, Genuine)

SizesOf(hs)  == [k \in DOMAIN hs |-> reactor[hs[k]].neq]
ParamsOf(hs) == [k \in DOMAIN hs |-> reactor[hs[k]].nsens]

(* C1: after every successful initialize, a re-initialization included,    *)
(* the offset at which updateState addresses reactor i is the sum of the   *)
(* current local sizes of the qualifying reactors before it.               *)
C1_OffsetsArePrefixSums ==
    InitializeSucceeded =>
        \A i \in 1..m_nreactors :
            updateState(Current)[i].v
                = SumSeq(SizesOf(Prefix(GenuineHandles, i - 1)))

(* C2: after every successful initialize the total equation count is the   *)
(* sum of neq() over the genuine reactors; the reactor table holds exactly *)
(* these, and Reactor::initialize was invoked on exactly these, in         *)
(* registration order.                                                     *)
C2_CountIsSumOverGenuine ==
    InitializeSucceeded =>
        /\ m_nv = SumSeq(SizesOf(GenuineHandles))
        /\ m_reactors = GenuineHandles
        /\ m_nreactors = Len(GenuineHandles)
        /\ [k \in DOMAIN EventsOf(trace, "Reactor::initialize") |->
                EventsOf(trace, "Reactor::initialize")[k].h] = GenuineHandles

C2_Witness ==
    /\ InitializeSucceeded
    /\ \E k \in DOMAIN m_r : ~Genuine(m_r[k])
    /\ m_nreactors >= 1
    /\ Len(m_size) > m_nreactors

(* C3: after every successful initialize, the second and later ones        *)
(* included, the total sensitivity-parameter count is the sum of           *)
(* nSensParams() over the qualifying reactors and the per-reactor table    *)
(* holds exactly one entry per qualifying reactor, in registration order.  *)
C3_SensitivityCounts ==
    InitializeSucceeded =>
        /\ m_ntotpar = SumSeq(ParamsOf(GenuineHandles))
        /\ m_nparams = ParamsOf(GenuineHandles)

(* C4: initialize fails with the setup error whenever more than one handle *)
(* is registered and a qualifying reactor is a flow reactor, and does not  *)
(* fail with it when at most one handle is registered.                     *)
C4_FlowReactorAlone ==
    RanInitialize =>
        /\ (m_nr > 1 /\ \E k \in DOMAIN m_r :
                            reactor[m_r[k]].type = FlowReactorType)
              => SetupFailed
        /\ m_nr <= 1 => ~SetupFailed

C4_Witness ==
    /\ SetupFailed
    /\ m_nr > 1
    /\ reactor[m_r[m_nr]].type = FlowReactorType
    /\ reactor[m_r[1]].type = ReactorType

(* C5: in every reachable state the absolute-tolerance vector is as long   *)
(* as the total equation count.                                            *)
C5_AtolLength == Len(m_atol) = m_nv

(* C6: the initialized flag is false in every state that precedes the      *)
(* first initialize that completes without error.                          *)
C6_FlagFalseUntilSuccess == ~everInit => ~m_init

C6_Witness ==
    /\ ~everInit
    /\ RanInitialize
    /\ HasEvent(trace, "Integrator::initialize")
    /\ m_nreactors >= 1

(* ======================================================================= *)
(*                      properties of advance and step                     *)
(* ======================================================================= *)
(* position of the first event of that name in the trace, 0 when none *)
Position(tr, name) ==
    IF HasEvent(tr, name)
    THEN CHOOSE k \in DOMAIN tr :
            /\ tr[k].ev = name
            /\ \A j \in 1..(k - 1) : tr[j].ev # name
    ELSE 0

(* every reactor of the table is handed a slice after position k *)
ScatteredAfter(k) ==
    \A i \in 1..m_nreactors :
        \E j \in DOMAIN trace :
            /\ j > k
            /\ trace[j].ev = "Reactor::updateState"
            /\ trace[j].h = m_reactors[i]

(* C7: whenever advance(T) returns normally the current time is T and the  *)
(* solution has been scattered into every reactor after integrate(T).      *)
C7_AdvanceReachesT ==
    (call.op = "advance" /\ call.ok) =>
        /\ m_time = call.arg
        /\ Len(EventsOf(trace, "integrate")) = 1
        /\ trace[Position(trace, "integrate")].v = call.arg
        /\ HasEvent(trace, "integrate returned")
        /\ ScatteredAfter(Position(trace, "integrate returned"))

C7_Witness ==
    /\ call.op = "advance"
    /\ call.ok
    /\ ~RanInitialize
    /\ m_nreactors >= 2
    /\ m_time = 0

(* C8: whenever step(T) returns normally it returns the time the           *)
(* integrator's step reported, the current time is that value, and it is   *)
(* at most T when the integrator did not step past T.                      *)
C8_StepReturnsReached ==
    (call.op = "step" /\ call.ok) =>
        /\ Len(EventsOf(trace, "step")) = 1
        /\ HasEvent(trace, "step returned")
        /\ LET reached == trace[Position(trace, "step returned")].v IN
              /\ call.ret = reached
              /\ m_time = reached
              /\ reached <= call.arg => m_time <= call.arg
        /\ ScatteredAfter(Position(trace, "step returned"))

C8_Witness ==
    /\ call.op = "step"
    /\ call.ok
    /\ call.ret < call.arg
    /\ m_nreactors >= 1

(* C9: advance and step run initialize exactly when the initialized flag   *)
(* is false at the call, and before they call the integrator; once an      *)
(* initialize has succeeded no later advance or step runs it again.        *)
C9_LazyInitialize ==
    [][ call'.op \in {"advance", "step"} =>
          /\ RanInitialize' <=> ~m_init
          /\ \A k \in DOMAIN trace' :
                trace'[k].ev \in {"integrate", "step"} =>
                    \A j \in DOMAIN trace' :
                        trace'[j].ev \in {"ReactorNet::initialize",
                                          "Reactor::initialize",
                                          "Integrator::initialize"} => j < k
          /\ everInit => ~RanInitialize' ]_vars

C9_Witness ==
    /\ call.op \in {"advance", "step"}
    /\ call.ok
    /\ RanInitialize
    /\ HasEvent(trace, "Reactor::initialize")
    /\ HasEvent(trace, "integrate")

(* C10: the max step size the lazy initialize of advance(T) or step(T)     *)
(* forwards to the integrator is T minus the current time when none has    *)
(* been set, and the set value otherwise.                                  *)
C10_LazyMaxStep ==
    [][ ( /\ call'.op \in {"advance", "step"}
          /\ ~m_init
          /\ HasEvent(trace', "setMaxStepSize") ) =>
          LET forwarded == trace'[Position(trace', "setMaxStepSize")].v IN
             /\ integ'.maxstep = forwarded
             /\ m_maxstep < 0  => forwarded = call'.arg - m_time
             /\ m_maxstep >= 0 => forwarded = m_maxstep ]_vars

C10_Witness ==
    /\ call.op \in {"advance", "step"}
    /\ RanInitialize
    /\ HasEvent(trace, "setMaxStepSize")
    /\ trace[Position(trace, "setMaxStepSize")].v = call.arg
    /\ call.arg > 0

(* ======================================================================= *)
(*                     failures of the integrator                          *)
(* ======================================================================= *)
(* C17: when integrate (in advance) or step (in step) fails outside the    *)
(* evaluator, advance or step fails to its caller, the current time keeps  *)
(* its value and the call scatters no solution: the failure is the last    *)
(* thing that happens in it.                                               *)
C17_IntegrationFailureSurfaces ==
    [][ ( /\ call'.op \in {"advance", "step"}
          /\ HasEvent(trace', "IntegrationFailure") ) =>
          /\ ~call'.ok
          /\ ~Aborted'
          /\ m_time' = m_time
          /\ trace'[Len(trace')].ev = "IntegrationFailure"
          /\ \A h \in DOMAIN reactor : reactor'[h].ystart = reactor[h].ystart
          /\ ~HasEvent(trace', "integrate returned")
          /\ ~HasEvent(trace', "step returned") ]_vars

C17_Witness ==
    /\ call.op \in {"advance", "step"}
    /\ ~call.ok
    /\ HasEvent(trace, "IntegrationFailure")
    /\ m_init
    /\ m_nreactors >= 1
    /\ m_time = 0

(* ======================================================================= *)
(*                    properties of eval and the queries                   *)
(* ======================================================================= *)
(* the reactors of the table, and their sizes and sensitivity counts now   *)
Table == [i \in 1..m_nreactors |-> m_reactors[i]]

LastOf(s, k) == SubSeq(s, Len(s) - k + 1, Len(s))

(* no reactor of the table has changed its size or its sensitivity count   *)
(* since the last initialize recorded them                                 *)
Fresh ==
    /\ Len(m_size) >= m_nreactors
    /\ LastOf(m_size, m_nreactors) = SizesOf(Table)
    /\ LastOf(m_nparams, m_nreactors) = ParamsOf(Table)

(* the last call ran eval, and eval returned *)
EvalReturned == HasEvent(trace, "eval returned")

(* the calls to reactors that the eval of the last call made, from its     *)
(* entry to its return or to its call of error()                           *)
EvalSegment ==
    LET from == Position(trace, "eval")
        to   == IF EvalReturned THEN Position(trace, "eval returned")
                ELSE Position(trace, "error")
    IN  IF from = 0 THEN <<>>
        ELSE SelectSeq(SubSeq(trace, from, to),
                       LAMBDA e : e.ev \in {"Reactor::updateState",
                                            "Reactor::evalEqs"})

HandlesOf(tr) == [k \in DOMAIN tr |-> tr[k].h]

(* C11: within one eval, updateState is invoked on every reactor of the    *)
(* table before the first evalEqs, and evalEqs once per reactor in         *)
(* registration order, its y/ydot slice starting at the sum of the local   *)
(* sizes of the reactors before it and its p slice at the sum of their     *)
(* sensitivity-parameter counts.                                           *)
C11_EvalOrderAndOffsets ==
    (m_init /\ Fresh /\ EvalReturned) =>
        LET us == EventsOf(EvalSegment, "Reactor::updateState")
            es == EventsOf(EvalSegment, "Reactor::evalEqs")
        IN  /\ EvalSegment = us \o es
            /\ HandlesOf(us) = Table
            /\ HandlesOf(es) = Table
            /\ \A i \in DOMAIN es :
                  /\ es[i].v = SumSeq(SizesOf(Prefix(Table, i - 1)))
                  /\ es[i].p = SumSeq(ParamsOf(Prefix(Table, i - 1)))

(* the ordering half of C11 alone, which the code keeps *)
EvalOrder ==
    EvalReturned =>
        LET us == EventsOf(EvalSegment, "Reactor::updateState")
            es == EventsOf(EvalSegment, "Reactor::evalEqs")
        IN  /\ EvalSegment = us \o es
            /\ HandlesOf(us) = Table
            /\ HandlesOf(es) = Table

(* C12: a failure of a reactor's updateState or evalEqs during eval is     *)
(* caught inside eval and reported (showErrors, then error), which ends    *)
(* the execution: nothing is called afterwards, the evaluation is not      *)
(* retried, and the enclosing advance or step does not complete (the       *)
(* current time keeps its value, no solution is scattered).                *)
C12_EvalFailureIsFatal ==
    [][ /\ ~Aborted
        /\ (HasEvent(trace', "eval") /\ ~EvalReturned') =>
              LET n == Len(trace') IN
              /\ trace'[n].ev = "error"
              /\ trace'[n - 1].ev = "showErrors"
              /\ trace'[n - 2].ev \in {"Reactor::updateState",
                                       "Reactor::evalEqs"}
              /\ Len(EventsOf(trace', "eval")) = 1
              /\ Aborted'
              /\ ~call'.ok
              /\ m_time' = m_time
              /\ ~HasEvent(trace', "integrate returned")
              /\ ~HasEvent(trace', "step returned") ]_vars

C12_Witness ==
    /\ call.op \in {"advance", "step"}
    /\ Aborted
    /\ Len(EventsOf(trace, "Reactor::evalEqs")) = 2
    /\ m_time = 0

(* the indices of ydot that reactor e.h owns when handed ydot + e.v *)
SliceOf(e) == (e.v + 1)..(e.v + reactor[e.h].neq)

(* C13: a successful eval changes nothing of the network but the state the *)
(* reactors take from y: time, flag, tables and totals keep their values;  *)
(* and the ydot slices of the reactors are pairwise disjoint and together  *)
(* cover the indices of the m_nv equations.                                *)
C13_EvalFrameAndSlices ==
    [][ (call'.op = "eval" /\ call'.ok /\ m_init /\ Fresh) =>
          LET es == EventsOf(trace', "Reactor::evalEqs") IN
          /\ UNCHANGED <<m_r, m_nr, m_reactors, m_nreactors, m_size,
                         m_nparams, m_ntotpar, m_nv, m_atol, m_time, m_init,
                         m_maxstep, integ>>
          /\ \A h \in DOMAIN reactor :
                [reactor'[h] EXCEPT !.ystart = 0]
                    = [reactor[h] EXCEPT !.ystart = 0]
          /\ \A i, j \in DOMAIN es :
                i # j => SliceOf(es[i]) \cap SliceOf(es[j]) = {}
          /\ UNION {SliceOf(es[i]) : i \in DOMAIN es} = 1..m_nv ]_vars

(* C14: getInitialConditions called with a length other than the total     *)
(* number of equations fails, and asks no reactor to write.                *)
C14_LengthChecked ==
    (call.op = "getInitialConditions" /\ call.arg.leny # m_nv) =>
        /\ ~call.ok
        /\ ~HasEvent(trace, "Reactor::getInitialConditions")

(* what reactor h has taken from the buffer y of the last call *)
ReadBack(h) ==
    [j \in 1..reactor[h].neq |-> call.arg.y[reactor[h].ystart + j]]

(* C15: on an initialized network, getInitialConditions into a buffer of   *)
(* m_nv cells followed at once by updateState on that buffer hands every   *)
(* reactor back the values it wrote.                                       *)
C15_RoundTrip ==
    (call.op = "updateState" /\ m_init /\ Fresh /\ call.arg.leny = m_nv) =>
        \A i \in 1..m_nreactors :
            ReadBack(m_reactors[i]) = Own(m_reactors[i])

(* C16: once initialized, globalComponentIndex(name, r) is the sum of the  *)
(* current local sizes of the reactors before r plus the local index of    *)
(* the name in reactor r, and fails for a name reactor r does not have.    *)
C16_GlobalComponentIndex ==
    (call.op = "globalComponentIndex" /\ m_init /\ Fresh) =>
        LET r == call.arg.reactor
            h == m_reactors[r + 1]
        IN  IF Known(h, call.arg.species)
            THEN /\ call.ok
                 /\ call.ret = SumSeq(SizesOf(Prefix(Table, r)))
                               + componentIndex(h, call.arg.species)
            ELSE ~call.ok

(* ======================================================================= *)
(*                      properties of the Delegator                        *)
(* ======================================================================= *)
(* the last call set a delegate on method name of that signature, and this *)
(* step calls that method                                                  *)
InvokedAfterSet(sig) ==
    /\ dcall.op = "setDelegate"
    /\ dcall.sig = sig
    /\ dcall.err = "none"
    /\ dcall'.op = "invoke"
    /\ dcall'.sig = sig
    /\ dcall'.name = dcall.name

(* C18: for a method without return value, after setDelegate(name, f,      *)
(* when) a call of the method calls f then the function installed before   *)
(* when when is "before", that function then f when it is "after", and f   *)
(* alone when it is "replace", each with the arguments of the call.        *)
C18_VoidDelegateOrder ==
    [][ InvokedAfterSet("v_d") =>
          LET f    == <<Called(dcall.func, dcall'.arg)>>
              prev == Run_v(dcall.prev, dcall'.arg)
          IN  /\ dcall.when = "before"  => dcall'.calls = f \o prev
              /\ dcall.when = "after"   => dcall'.calls = prev \o f
              /\ dcall.when = "replace" => dcall'.calls = f
              /\ \A k \in DOMAIN dcall'.calls :
                    dcall'.calls[k].arg = dcall'.arg ]_vars

C18_Witness ==
    /\ dcall.op = "invoke"
    /\ dcall.sig = "v_d"
    /\ dcall.arg = 1
    /\ Len(dcall.calls) = 3
    /\ dcall.calls[1].f = "d1"
    /\ dcall.calls[2].f = "f"
    /\ dcall.calls[3].f = "d2"

(* C19: for a method with a return value: "before" returns the delegate's  *)
(* value without calling the original when the delegate returns non-zero,  *)
(* and the original's value otherwise; "after" always calls the original   *)
(* and returns its value plus the delegate's when the delegate returns     *)
(* non-zero, and the original's value otherwise; "replace" never calls the *)
(* original.                                                               *)
C19_ReturnDelegateValue ==
    [][ InvokedAfterSet("sz_csr") =>
          LET f    == dcall.func
              orig == m_base_sz_csr[dcall.name]
              fc   == Called(f, dcall'.arg)
              oc   == Called(orig, dcall'.arg)
          IN  /\ dcall.when = "before" =>
                    IF f.done # 0
                    THEN dcall'.ret = f.val /\ dcall'.calls = <<fc>>
                    ELSE dcall'.ret = orig.val /\ dcall'.calls = <<fc, oc>>
              /\ dcall.when = "after" =>
                    /\ dcall'.calls = <<oc, fc>>
                    /\ dcall'.ret = IF f.done # 0 THEN orig.val + f.val
                                    ELSE orig.val
              /\ dcall.when = "replace" =>
                    /\ dcall'.calls = <<fc>>
                    /\ f.done # 0 => dcall'.ret = f.val ]_vars

C19_Witness ==
    /\ dcall.op = "invoke"
    /\ dcall.sig = "sz_csr"
    /\ dcall.calls = <<[f |-> "g", arg |-> 1], [f |-> "d1", arg |-> 1]>>
    /\ dcall.ret = MaxVal + 1

(* C20: setDelegate fails with NotImplementedError when no method of that  *)
(* name is installed for that signature, and with CanteraError when when   *)
(* is none of "before", "after", "replace"; a setDelegate that fails       *)
(* leaves every installed method its function and adds no name to a map.   *)
C20_SetDelegateFailures ==
    [][ dcall'.op = "setDelegate" =>
          LET m == IF dcall'.sig = "v_d" THEN m_funcs_v_d
                   ELSE m_funcs_sz_csr
          IN  /\ m[dcall'.name] = Absent =>
                    dcall'.err = "NotImplementedError"
              /\ ( /\ m[dcall'.name] # Absent
                   /\ dcall'.when \notin {"before", "after", "replace"} ) =>
                    dcall'.err = "CanteraError"
              /\ dcall'.err # "none" =>
                    UNCHANGED <<m_funcs_v_d, m_funcs_sz_csr,
                                m_base_sz_csr>> ]_vars

C20_Witness ==
    /\ dcall.op = "setDelegate"
    /\ dcall.err = "CanteraError"
    /\ dcall.sig = "v_d"
    /\ m_funcs_v_d[dcall.name].kind = "before"

(* ======================================================================= *)
(*                  setup errors of the lazy initialize                    *)
(* ======================================================================= *)
(* this step is an advance or a step on a network not yet initialized,     *)
(* whose initialize threw a setup error                                    *)
LazySetupError ==
    /\ call'.op \in {"advance", "step"}
    /\ ~m_init
    /\ SetupFailed'

(* ... which surfaces to the caller before the integrator is asked to      *)
(* integrate or step, and leaves time and flag alone                       *)
SurfacesUntouched ==
    /\ ~call'.ok
    /\ ~Aborted'
    /\ ~HasEvent(trace', "integrate")
    /\ ~HasEvent(trace', "step")
    /\ ~HasEvent(trace', "Integrator::initialize")
    /\ m_time' = m_time
    /\ m_init' = m_init

(* C21: when the lazy initialize of advance or step fails with a setup     *)
(* error, the error surfaces, integrate/step is never invoked, and the     *)
(* current time, the initialized flag and the max step size are as they    *)
(* were before the call.                                                   *)
C21_LazySetupErrorLeavesAll ==
    [][ LazySetupError =>
          /\ SurfacesUntouched
          /\ m_maxstep' = m_maxstep ]_vars

(* C21 as amended: ... the current time and the initialized flag are as    *)
(* they were; the max step size is as it was if one had been set, and is   *)
(* the time asked for minus the current time if none had been set.         *)
C21_LazySetupErrorKeepsDerivedStep ==
    [][ LazySetupError =>
          /\ SurfacesUntouched
          /\ m_maxstep >= 0 => m_maxstep' = m_maxstep
          /\ m_maxstep < 0  => m_maxstep' = call'.arg - m_time ]_vars

C21_Witness ==
    /\ call.op \in {"advance", "step"}
    /\ ~call.ok
    /\ SetupFailed
    /\ ~m_init
    /\ call.arg > 0
    /\ m_maxstep = call.arg - m_time

====
